---- MODULE Spec2Model ----
(***************************************************************************)
(* Model of gocnc's vm package: the toolpath (vm.Positions), the position  *)
(* interpreter (move, arc, dwell) and the optimizer / utility passes that  *)
(* rewrite the toolpath.  Coordinates are integers on a small grid; the    *)
(* float64 comparisons of the code are exact on such values.               *)
(***************************************************************************)
EXTENDS Integers, Sequences, FiniteSets, TLC

VARIABLES Positions,   \* vm.Positions, the toolpath
          State,       \* vm.State, the modal state copied into each waypoint
          MovePlane,   \* vm.MovePlane
          before,      \* vm.Positions as it was when the last pass was called
          lastOp,      \* name of the last pass / interpreter step executed
          lastArg,     \* arguments of the last pass / interpreter step
          err,         \* error returned by the last pass ("" = nil)
          blocks,      \* number of blocks the interpreter may still take
          Imperial,         \* vm.Imperial
          AbsoluteMove,     \* vm.AbsoluteMove
          AbsoluteArc,      \* vm.AbsoluteArc
          CoordinateSystem, \* vm.CoordinateSystem: active offset and override
          resolved          \* what the last call of calcPos returned

\* The part of the machine context that calcPos reads, and its result
context == <<Imperial, AbsoluteMove, AbsoluteArc, CoordinateSystem, resolved>>

vars == <<Positions, State, MovePlane, before, lastOp, lastArg, err, blocks,
          context>>

----------------------------------------------------------------------------
(* Bounds of the model *)

MaxX == 1          \* X in 0..MaxX
MaxY == 0          \* Y in 0..MaxY
MaxZ == 2          \* Z in -MaxDepth..MaxZ
MaxDepth == 2
MaxFeed == 2       \* feedrates 0..MaxFeed
MaxTol == 2        \* tolerances 0..MaxTol
MaxCycles == 2     \* drill cycles in an initial toolpath
MaxBlocks == 1     \* blocks interpreted on top of an initial drill-cycle toolpath
BuildBlocks == 4   \* blocks interpreted when the toolpath is built from the origin
ReturnBlocks == 2  \* blocks interpreted before Return
ArcBlocks == 1     \* blocks interpreted in the arc specification
MaxArc == 1        \* arc end points and centres have coordinates in 0..MaxArc
MaxSteps == 2      \* subdivision counts 0..MaxSteps
MaxRotations == 2  \* rotation counts 0..MaxRotations
Scale == 1000      \* lengths are held in units of 1/Scale
MaxLen == 7        \* longest toolpath OptDrillSpeed is applied to
MaxWord == 1       \* words of a block are 5 * (1..MaxWord)
MaxOffset == 1     \* coordinate-system offsets in 0..MaxOffset

Xs == 0..MaxX
Ys == 0..MaxY
Zs == (0 - MaxDepth)..MaxZ
Feeds == 0..MaxFeed
Tolerances == 0..MaxTol
\* OptVector tolerances 0, 0.5, 1.0, ... in units of 1/Scale
VectorTolerances == { (t * Scale) \div 2 : t \in 0..MaxTol }
Heights == 0..(MaxZ + 1)
ArcCoords == 0..MaxArc

----------------------------------------------------------------------------
(* Motion modes (vm.State.MoveMode) *)

MoveModeNone == "none"
MoveModeRapid == "rapid"
MoveModeLinear == "linear"
MoveModeCWArc == "cwarc"
MoveModeCCWArc == "ccwarc"
MoveModeDwell == "dwell"

PlaneXY == "XY"
PlaneXZ == "XZ"
PlaneYZ == "YZ"

\* The zero value of vm.State
InitialState ==
    [MoveMode |-> MoveModeNone, Feedrate |-> 0, SpindleEnabled |-> FALSE,
     MistCoolant |-> FALSE, FloodCoolant |-> FALSE, DwellTime |-> 0]

\* Position{state, x, y, z}
Position(st, x, y, z) == [State |-> st, X |-> x, Y |-> y, Z |-> z]

Origin == Position(InitialState, 0, 0, 0)

\* Position.Vector()
Vector(p) == [X |-> p.X, Y |-> p.Y, Z |-> p.Z]

ZeroVector == [X |-> 0, Y |-> 0, Z |-> 0]

WithMode(p, mode) == [p EXCEPT !.State.MoveMode = mode]

Last(s) == s[Len(s)]

Max(a, b) == IF a > b THEN a ELSE b

Abs(a) == IF a < 0 THEN 0 - a ELSE a

NoErr == ""

----------------------------------------------------------------------------
(* Position interpreter: move *)

\* vm.curPos()
curPos(P) == P[Len(P)]

\* vm.move(x, y, z): appends Position{vm.State, x, y, z}
move(P, st, x, y, z) == Append(P, Position(st, x, y, z))

----------------------------------------------------------------------------
(* OptRouteGrouping *)

\* State of the grouping scan before the first waypoint
ScanInit ==
    [lastx |-> 0, lasty |-> 0, lastz |-> 0, sets |-> <<>>, curSet |-> <<>>,
     safetyHeight |-> 0, drillSpeed |-> 0, sequenceStarted |-> FALSE,
     panic |-> NoErr]

\* The updateLast label: safety height and last position
UpdateLast(s, m) ==
    [s EXCEPT !.safetyHeight = Max(s.safetyHeight, m.Z),
              !.lastx = m.X, !.lasty = m.Y, !.lastz = m.Z]

\* "Set drill feedrate" in a down move
DrillFeed(s, m) ==
    IF m.State.MoveMode = MoveModeLinear /\ m.State.Feedrate > s.drillSpeed
    THEN IF s.drillSpeed # 0
         THEN [s EXCEPT !.panic = "Multiple drill feedrates detected"]
         ELSE [s EXCEPT !.drillSpeed = m.State.Feedrate]
    ELSE s

\* The "Regular move" part of the loop body, then updateLast
RegularMove(s, m) ==
    IF s.panic # NoErr THEN s
    ELSE IF s.sequenceStarted
    THEN IF m.Z > 0
         THEN [s EXCEPT !.panic = "Move above stock detected"]
         ELSE UpdateLast([s EXCEPT !.curSet = Append(s.curSet, m)], m)
    ELSE UpdateLast(s, m)

\* One iteration of the "Find grouped drills" loop
ScanStep(s, m) ==
    IF s.panic # NoErr THEN s
    ELSE IF m.Z # s.lastz /\ (m.X # s.lastx \/ m.Y # s.lasty)
    THEN [s EXCEPT !.panic = "Complex z-motion detected"]
    ELSE IF m.X = s.lastx /\ m.Y = s.lasty
    THEN IF s.lastz >= 0 /\ m.Z < 0
         THEN RegularMove(DrillFeed([s EXCEPT !.sequenceStarted = TRUE], m), m)
         ELSE IF s.lastz < 0 /\ m.Z >= 0
         THEN UpdateLast(
                [s EXCEPT !.sets = IF s.sequenceStarted
                                   THEN Append(s.sets, s.curSet) ELSE s.sets,
                          !.sequenceStarted = FALSE,
                          !.curSet = <<>>], m)
         ELSE RegularMove(s, m)
    ELSE IF m.Z < 0 /\ m.State.MoveMode = MoveModeRapid
    THEN [s EXCEPT !.panic = "Rapid move in stock detected"]
    ELSE RegularMove(s, m)

RECURSIVE ScanFrom(_, _, _)
ScanFrom(P, i, s) ==
    IF i > Len(P) THEN s ELSE ScanFrom(P, i + 1, ScanStep(s, P[i]))

\* The whole "Find grouped drills" loop
Scan(P) == ScanFrom(P, 1, ScanInit)

\* The checks that follow the loop
PostScan(s) ==
    IF s.panic # NoErr THEN s.panic
    ELSE IF s.safetyHeight = 0 THEN "Unable to detect safety height"
    ELSE IF s.drillSpeed = 0 THEN "Unable to detect drill feedrate"
    ELSE IF Len(s.curSet) = 1
    THEN IF \/ s.curSet[1].Z # s.safetyHeight \/ s.lastz # s.safetyHeight
            \/ s.curSet[1].X # 0 \/ s.curSet[1].Y # 0
         THEN "Incomplete final drill set" ELSE NoErr
    ELSE IF Len(s.curSet) > 0 THEN "Incomplete final drill set"
    ELSE NoErr

\* Square of xyDiff(pos, cur): the norm of the difference with Z zeroed.
\* The code compares norms; on the grid the squares compare the same way.
xyDiffSq(pos, cur) ==
    (cur.X - pos.X) * (cur.X - pos.X) + (cur.Y - pos.Y) * (cur.Y - pos.Y)

\* xyDiff(a, b) < tolerance
xyDiffBelow(a, b, tolerance) ==
    tolerance > 0 /\ xyDiffSq(a, b) < tolerance * tolerance

\* selectedSet == -1 in the code (indices are 1-based here)
NoSet == 0

\* One iteration of the inner selection loop
SelectStep(sets, curVec, selectedSet, idx) ==
    IF selectedSet = NoSet THEN idx
    ELSE LET np == sets[idx][1]
             pp == sets[selectedSet][1]
             diff == xyDiffSq(Vector(np), curVec)
             other == xyDiffSq(Vector(pp), curVec)
         IN IF diff < other THEN idx
            ELSE IF np.Z > pp.Z THEN idx
            ELSE selectedSet

RECURSIVE SelectFrom(_, _, _, _)
SelectFrom(sets, curVec, selectedSet, idx) ==
    IF idx > Len(sets) THEN selectedSet
    ELSE SelectFrom(sets, curVec, SelectStep(sets, curVec, selectedSet, idx), idx + 1)

\* The inner "for idx := range sets" loop
Select(sets, curVec, selectedSet) == SelectFrom(sets, curVec, selectedSet, 1)

\* sets with element i removed
RemoveAt(s, i) == SubSeq(s, 1, i - 1) \o SubSeq(s, i + 1, Len(s))

\* The selection steps of the sort loop: one record per outer iteration,
\* with the tool position used, the candidates and the index chosen.
RECURSIVE SortSteps(_, _, _)
SortSteps(sets, curVec, selectedSet) ==
    IF Len(sets) = 0 THEN <<>>
    ELSE LET sel == Select(sets, curVec, selectedSet)
         IN <<[sets |-> sets, curVec |-> curVec, selected |-> sel]>>
            \o SortSteps(RemoveAt(sets, sel), Vector(sets[sel][1]), NoSet)

\* "Sort the sets after distance from current position": selectedSet starts
\* at its zero value, which is the first set (index 1 here).
SortSets(sets) ==
    LET steps == SortSteps(sets, ZeroVector, 1)
    IN [i \in 1..Len(steps) |-> steps[i].sets[steps[i].selected]]

\* The moveTo closure
moveTo(newPos, pos, tolerance, safetyHeight, drillSpeed) ==
    LET cur == newPos[Len(newPos)]
    IN IF xyDiffBelow(Vector(cur), Vector(pos), tolerance)
       THEN IF cur.X # pos.X \/ cur.Y # pos.Y
            THEN newPos \o <<[WithMode(cur, MoveModeLinear) EXCEPT !.X = pos.X, !.Y = pos.Y], pos>>
            ELSE Append(newPos, pos)
       ELSE LET step1 == [WithMode(cur, MoveModeRapid) EXCEPT !.Z = safetyHeight]
                step2 == [step1 EXCEPT !.X = pos.X, !.Y = pos.Y]
                step3 == [step2 EXCEPT !.Z = pos.Z,
                                       !.State.MoveMode = MoveModeLinear,
                                       !.State.Feedrate = drillSpeed]
            IN newPos \o <<step1, step2, step3>>

\* "Reconstruct new position stack from sorted sections"
RECURSIVE Rebuild(_, _, _, _, _, _)
Rebuild(newPos, sorted, i, tolerance, safetyHeight, drillSpeed) ==
    IF i > Len(sorted) THEN newPos
    ELSE LET m == sorted[i]
             first == moveTo(newPos, m[1], tolerance, safetyHeight, drillSpeed)
         IN Rebuild(first \o SubSeq(m, 2, Len(m)), sorted, i + 1,
                    tolerance, safetyHeight, drillSpeed)

\* A variant that stores the rebuilt prefix before the final validation
OptRouteGroupingEarlyStore(P, tolerance) ==
    LET s == Scan(P)
        e == PostScan(s)
    IN IF e # NoErr /\ s.panic = NoErr /\ Len(P) > 0
       THEN [err |-> e,
             pos |-> Rebuild(<<P[1]>>, SortSets(s.sets), 1, tolerance,
                             s.safetyHeight, s.drillSpeed)]
       ELSE IF e # NoErr THEN [err |-> e, pos |-> P]
       ELSE [err |-> NoErr,
             pos |-> Rebuild(<<P[1]>>, SortSets(s.sets), 1, tolerance,
                             s.safetyHeight, s.drillSpeed)]

\* OptRouteGrouping(tolerance): the error returned and the resulting vm.Positions
OptRouteGrouping(P, tolerance) ==
    LET s == Scan(P)
        e == PostScan(s)
    IN IF e # NoErr THEN [err |-> e, pos |-> P]
       ELSE [err |-> NoErr,
             pos |-> Rebuild(<<P[1]>>, SortSets(s.sets), 1, tolerance,
                             s.safetyHeight, s.drillSpeed)]

----------------------------------------------------------------------------
(* OptDrillSpeed *)

\* The depth search of the fastDrill closure: the deepest negative Z the
\* drill stack holds at pos.X, pos.Y (0 when there is none)
RECURSIVE DrillDepth(_, _, _, _)
DrillDepth(drillStack, pos, i, depth) ==
    IF i > Len(drillStack) THEN depth
    ELSE LET m == drillStack[i]
         IN DrillDepth(drillStack, pos, i + 1,
                       IF m.X = pos.X /\ m.Y = pos.Y /\ m.Z < depth
                       THEN m.Z ELSE depth)

\* The fastDrill closure: the waypoints to append for a drill move pos
fastDrill(drillStack, pos) ==
    LET depth == DrillDepth(drillStack, pos, 1, 0)
        found == depth < 0
    IN IF found
       THEN IF pos.Z >= depth
            THEN <<WithMode(pos, MoveModeRapid)>>
            ELSE <<[WithMode(pos, MoveModeRapid) EXCEPT !.Z = depth], pos>>
       ELSE <<pos>>

DrillInit ==
    [lastx |-> 0, lasty |-> 0, lastz |-> 0, npos |-> <<>>, drillStack |-> <<>>]

\* One iteration of the loop of OptDrillSpeed
DrillStep(s, m) ==
    IF /\ m.X = s.lastx /\ m.Y = s.lasty /\ m.Z < s.lastz
       /\ m.State.MoveMode = MoveModeLinear
    THEN [s EXCEPT !.npos = s.npos \o fastDrill(s.drillStack, m),
                   !.drillStack = Append(s.drillStack, m),
                   !.lastx = m.X, !.lasty = m.Y, !.lastz = m.Z]
    ELSE [s EXCEPT !.npos = Append(s.npos, m),
                   !.lastx = m.X, !.lasty = m.Y, !.lastz = m.Z]

RECURSIVE DrillFrom(_, _, _)
DrillFrom(P, i, s) ==
    IF i > Len(P) THEN s ELSE DrillFrom(P, i + 1, DrillStep(s, P[i]))

\* OptDrillSpeed(): the resulting vm.Positions
OptDrillSpeed(P) == DrillFrom(P, 1, DrillInit).npos

----------------------------------------------------------------------------
(* OptBogusMoves *)

RECURSIVE Gcd(_, _)
Gcd(a, b) == IF b = 0 THEN a ELSE Gcd(b, a % b)

\* The unit vector (dx/norm, dy/norm, dz/norm) of a non-zero move, held as
\* the smallest integer vector of the same direction: two moves have equal
\* unit vectors exactly when they have equal reduced vectors.
UnitVector(dx, dy, dz) ==
    LET g == Gcd(Gcd(Abs(dx), Abs(dy)), Abs(dz))
    IN [X |-> dx \div g, Y |-> dy \div g, Z |-> dz \div g]

BogusInit ==
    [xstate |-> 0, ystate |-> 0, zstate |-> 0, lastvec |-> ZeroVector,
     npos |-> <<>>]

\* One iteration of the loop of OptBogusMoves; npos holds the indices (into
\* the input) of the waypoints kept, i is the index of m
BogusStep(s, m, i) ==
    LET dx == m.X - s.xstate
        dy == m.Y - s.ystate
        dz == m.Z - s.zstate
        t == [s EXCEPT !.xstate = m.X, !.ystate = m.Y, !.zstate = m.Z]
    IN IF m.State.MoveMode # MoveModeRapid /\ m.State.MoveMode # MoveModeLinear
       THEN [t EXCEPT !.lastvec = ZeroVector]
       ELSE IF dx = 0 /\ dz = 0 /\ dy = 0
       THEN t
       ELSE LET vec == UnitVector(dx, dy, dz)
            IN IF s.lastvec = vec
               THEN [t EXCEPT !.npos[Len(s.npos)] = i]
               ELSE [t EXCEPT !.npos = Append(s.npos, i), !.lastvec = vec]

RECURSIVE BogusFrom(_, _, _)
BogusFrom(P, i, s) ==
    IF i > Len(P) THEN s ELSE BogusFrom(P, i + 1, BogusStep(s, P[i], i))

\* The indices of the waypoints of P that OptBogusMoves keeps, in order
OptBogusMovesKept(P) == BogusFrom(P, 1, BogusInit).npos

\* OptBogusMoves(): the resulting vm.Positions
OptBogusMoves(P) ==
    LET kept == OptBogusMovesKept(P)
    IN [n \in 1..Len(kept) |-> P[kept[n]]]

----------------------------------------------------------------------------
(* OptVector *)

\* Integer square root of n (rounded down), searched in lo..hi
RECURSIVE ISqrtIn(_, _, _)
ISqrtIn(n, lo, hi) ==
    IF lo >= hi THEN lo
    ELSE LET mid == (lo + hi + 1) \div 2
         IN IF mid * mid <= n THEN ISqrtIn(n, mid, hi) ELSE ISqrtIn(n, lo, mid - 1)

\* Vector.Diff
Diff(a, b) == [X |-> a.X - b.X, Y |-> a.Y - b.Y, Z |-> a.Z - b.Z]

\* Vector.Norm, in units of 1/Scale, rounded down (the norm is at most the
\* sum of the absolute components, which bounds the search)
Norm(v) ==
    ISqrtIn((v.X * v.X + v.Y * v.Y + v.Z * v.Z) * Scale * Scale, 0,
            (Abs(v.X) + Abs(v.Y) + Abs(v.Z)) * Scale)

VectorInit ==
    [vec1 |-> ZeroVector, vec2 |-> ZeroVector, vec3 |-> ZeroVector,
     ready |-> 0, lastMoveMode |-> MoveModeNone, npos |-> <<>>]

\* The window update and the length test for the third and later waypoints
\* of a run; the tolerance is in units of 1/Scale
VectorWindow(s, m, i, tolerance) ==
    LET w == IF s.ready = 2
             THEN [s EXCEPT !.vec3 = Vector(m), !.ready = 3]
             ELSE [s EXCEPT !.vec1 = s.vec2, !.vec2 = s.vec3, !.vec3 = Vector(m)]
        length1 == Norm(Diff(w.vec1, w.vec2)) + Norm(Diff(w.vec2, w.vec3))
        length2 == Norm(Diff(w.vec1, w.vec3))
    IN IF length1 - length2 < tolerance
       THEN [w EXCEPT !.npos[Len(w.npos)] = i, !.vec2 = w.vec1]
       ELSE [w EXCEPT !.npos = Append(w.npos, i)]

\* A variant that does not restart the window when the motion mode changes
VectorStepNoModeReset(s, m, i, tolerance) ==
    IF m.State.MoveMode # MoveModeLinear /\ m.State.MoveMode # MoveModeRapid
    THEN [s EXCEPT !.ready = 0, !.npos = Append(s.npos, i)]
    ELSE IF s.ready = 0
         THEN [s EXCEPT !.vec1 = Vector(m), !.ready = 1, !.npos = Append(s.npos, i)]
         ELSE IF s.ready = 1
         THEN [s EXCEPT !.vec2 = Vector(m), !.ready = 2, !.npos = Append(s.npos, i)]
         ELSE VectorWindow(s, m, i, tolerance)

\* One iteration of the loop of OptVector; npos holds the indices (into the
\* input) of the waypoints kept, i is the index of m
VectorStep(s, m, i, tolerance) ==
    IF m.State.MoveMode # MoveModeLinear /\ m.State.MoveMode # MoveModeRapid
    THEN [s EXCEPT !.ready = 0, !.npos = Append(s.npos, i)]
    ELSE LET t == IF m.State.MoveMode # s.lastMoveMode
                  THEN [s EXCEPT !.lastMoveMode = m.State.MoveMode, !.ready = 0]
                  ELSE s
         IN IF t.ready = 0
            THEN [t EXCEPT !.vec1 = Vector(m), !.ready = 1, !.npos = Append(t.npos, i)]
            ELSE IF t.ready = 1
            THEN [t EXCEPT !.vec2 = Vector(m), !.ready = 2, !.npos = Append(t.npos, i)]
            ELSE VectorWindow(t, m, i, tolerance)

RECURSIVE VectorFrom(_, _, _, _)
VectorFrom(P, i, s, tolerance) ==
    IF i > Len(P) THEN s
    ELSE VectorFrom(P, i + 1, VectorStep(s, P[i], i, tolerance), tolerance)

\* The indices of the waypoints of P that OptVector keeps, in order
OptVectorKept(P, tolerance) == VectorFrom(P, 1, VectorInit, tolerance).npos

\* OptVector(tolerance): the resulting vm.Positions
OptVector(P, tolerance) ==
    LET kept == OptVectorKept(P, tolerance)
    IN [n \in 1..Len(kept) |-> P[kept[n]]]

----------------------------------------------------------------------------
(* FindSafetyHeight, SetSafetyHeight, Return *)

RECURSIVE MaxZFrom(_, _, _)
MaxZFrom(P, i, maxz) ==
    IF i > Len(P) THEN maxz
    ELSE MaxZFrom(P, i + 1, IF P[i].Z > maxz THEN P[i].Z ELSE maxz)

\* FindSafetyHeight(): the highest Z position (at least 0)
FindSafetyHeight(P) == MaxZFrom(P, 1, 0)

RECURSIVE NextZFrom(_, _, _, _)
NextZFrom(P, i, maxz, nextz) ==
    IF i > Len(P) THEN nextz
    ELSE NextZFrom(P, i + 1, maxz,
                   IF P[i].Z < maxz /\ P[i].Z > nextz THEN P[i].Z ELSE nextz)

\* The nextz loop of SetSafetyHeight
NextZ(P) == NextZFrom(P, 1, FindSafetyHeight(P), 0)

\* The "Apply the changes" loop of SetSafetyHeight
ApplyHeight(P, height) ==
    LET maxz == FindSafetyHeight(P)
    IN [idx \in 1..Len(P) |->
          LET lastx == IF idx = 1 THEN 0 ELSE P[idx - 1].X
              lasty == IF idx = 1 THEN 0 ELSE P[idx - 1].Y
          IN IF lastx = P[idx].X /\ lasty = P[idx].Y /\ P[idx].Z = maxz
             THEN [P[idx] EXCEPT !.Z = height] ELSE P[idx]]

\* A variant that accepts a height equal to the next-lower plane
SetSafetyHeightStrict(P, height) ==
    IF height < NextZ(P)
    THEN [err |-> "New safety height collides with lower feed height", pos |-> P]
    ELSE [err |-> NoErr, pos |-> ApplyHeight(P, height)]

\* SetSafetyHeight(height): the error returned and the resulting vm.Positions
SetSafetyHeight(P, height) ==
    IF height <= NextZ(P)
    THEN [err |-> "New safety height collides with lower feed height", pos |-> P]
    ELSE [err |-> NoErr, pos |-> ApplyHeight(P, height)]

\* The disableSpindle / disableCoolant updates of Return
Disable(p, disableSpindle, disableCoolant) ==
    [p EXCEPT !.State.SpindleEnabled = IF disableSpindle THEN FALSE ELSE @,
              !.State.MistCoolant = IF disableCoolant THEN FALSE ELSE @,
              !.State.FloodCoolant = IF disableCoolant THEN FALSE ELSE @]

\* A variant whose lift-travel-plunge branch forgets the final plunge
ReturnNoPlunge(P, disableSpindle, disableCoolant) ==
    IF Len(P) = 0 THEN P
    ELSE LET maxz == FindSafetyHeight(P)
             lastPos == P[Len(P)]
         IN IF lastPos.X = 0 /\ lastPos.Y = 0 /\ lastPos.Z = 0
            THEN [P EXCEPT ![Len(P)] = Disable(lastPos, disableSpindle, disableCoolant)]
            ELSE IF lastPos.X = 0 /\ lastPos.Y = 0 /\ lastPos.Z # 0
            THEN Append(P, Disable([WithMode(lastPos, MoveModeRapid) EXCEPT !.Z = 0],
                                   disableSpindle, disableCoolant))
            ELSE IF lastPos.Z = maxz
            THEN LET move1 == [WithMode(lastPos, MoveModeRapid) EXCEPT !.X = 0, !.Y = 0]
                     move2 == Disable([move1 EXCEPT !.Z = 0], disableSpindle, disableCoolant)
                 IN P \o <<move1, move2>>
            ELSE LET move1 == [WithMode(lastPos, MoveModeRapid) EXCEPT !.Z = maxz]
                     move2 == [move1 EXCEPT !.X = 0, !.Y = 0]
                     move3 == Disable(move2, disableSpindle, disableCoolant)
                 IN P \o <<move1, move2, move3>>

\* Return(disableSpindle, disableCoolant): the resulting vm.Positions
Return(P, disableSpindle, disableCoolant) ==
    IF Len(P) = 0 THEN P
    ELSE LET maxz == FindSafetyHeight(P)
             lastPos == P[Len(P)]
         IN IF lastPos.X = 0 /\ lastPos.Y = 0 /\ lastPos.Z = 0
            THEN [P EXCEPT ![Len(P)] = Disable(lastPos, disableSpindle, disableCoolant)]
            ELSE IF lastPos.X = 0 /\ lastPos.Y = 0 /\ lastPos.Z # 0
            THEN Append(P, Disable([WithMode(lastPos, MoveModeRapid) EXCEPT !.Z = 0],
                                   disableSpindle, disableCoolant))
            ELSE IF lastPos.Z = maxz
            THEN LET move1 == [WithMode(lastPos, MoveModeRapid) EXCEPT !.X = 0, !.Y = 0]
                     move2 == Disable([move1 EXCEPT !.Z = 0], disableSpindle, disableCoolant)
                 IN P \o <<move1, move2>>
            ELSE LET move1 == [WithMode(lastPos, MoveModeRapid) EXCEPT !.Z = maxz]
                     move2 == [move1 EXCEPT !.X = 0, !.Y = 0]
                     move3 == Disable([move2 EXCEPT !.Z = 0], disableSpindle, disableCoolant)
                 IN P \o <<move1, move2, move3>>

\* dwell(seconds)
dwell(P, seconds) ==
    Append(P, [curPos(P) EXCEPT !.State.DwellTime = seconds,
                                !.State.MoveMode = MoveModeDwell])

----------------------------------------------------------------------------
(* arc *)

\* A variant of the add closures that never undoes the plane remapping
addNoFlip(plane, a1, a2, a3) == <<a1, a2, a3>>

\* The add closure of the working plane: the real (x, y, z) of the local
\* triple (a1, a2, a3)
add(plane, a1, a2, a3) ==
    IF plane = PlaneXY THEN <<a1, a2, a3>>
    ELSE IF plane = PlaneXZ THEN <<a2, a3, a1>>
    ELSE <<a3, a1, a2>>

\* "Flip coordinate system for working in other planes": the local start,
\* end and centre
ArcLocal(plane, sp, x, y, z, i, j, k) ==
    IF plane = PlaneXY
    THEN [s1 |-> sp.X, s2 |-> sp.Y, s3 |-> sp.Z, e1 |-> x, e2 |-> y, e3 |-> z,
          c1 |-> i, c2 |-> j]
    ELSE IF plane = PlaneXZ
    THEN [s1 |-> sp.Z, s2 |-> sp.X, s3 |-> sp.Y, e1 |-> z, e2 |-> x, e3 |-> y,
          c1 |-> k, c2 |-> i]
    ELSE [s1 |-> sp.Y, s2 |-> sp.Z, s3 |-> sp.X, e1 |-> y, e2 |-> z, e3 |-> x,
          c1 |-> j, c2 |-> k]

\* Squares of radius1 and radius2
Radius1Sq(a) == (a.c1 - a.s1) * (a.c1 - a.s1) + (a.c2 - a.s2) * (a.c2 - a.s2)
Radius2Sq(a) == (a.c1 - a.e1) * (a.c1 - a.e1) + (a.c2 - a.e2) * (a.c2 - a.e2)

\* A radius in units of 1/Scale, from its square
Radius(sq) == ISqrtIn(sq * Scale * Scale, 0, (sq + 1) * Scale)

\* "Perform arc verification": the panic raised, NoErr when the arc is valid
\* (rDiff > 0.005 && deviation > 0.1) || rDiff > 0.5, in units of 1/Scale
ArcVerify(a) ==
    LET radius1 == Radius(Radius1Sq(a))
        radius2 == Radius(Radius2Sq(a))
        rDiff == Abs(radius2 - radius1)
    IN IF Radius1Sq(a) = 0 \/ Radius2Sq(a) = 0 THEN "Invalid arc statement"
       ELSE IF (rDiff * 200 > Scale /\ rDiff * 1000 > radius1) \/ rDiff * 2 > Scale
       THEN "Radius deviation"
       ELSE NoErr

\* The points the approximation loop may emit in the plane: the code places
\* each at c + radius1 * (cos, sin) of an interpolated angle; here any grid
\* point at distance radius1 from the centre stands for such a point.
CirclePoints(a) ==
    LET r == Radius1Sq(a)
    IN { q \in ((a.c1 - r)..(a.c1 + r)) \X ((a.c2 - r)..(a.c2 + r)) :
           (q[1] - a.c1) * (q[1] - a.c1) + (q[2] - a.c2) * (q[2] - a.c2) = r }

\* "Execute arc approximation": the waypoints of steps 0..steps, appended
\* through add; pts[n] is the plane point of step n
RECURSIVE ArcLoop(_, _, _, _, _, _, _)
ArcLoop(P, st, plane, a, steps, pts, n) ==
    IF n > steps THEN P
    ELSE LET a3 == a.s3 + ((a.e3 - a.s3) * n) \div steps
             q == add(plane, pts[n][1], pts[n][2], a3)
         IN ArcLoop(move(P, st, q[1], q[2], q[3]), st, plane, a, steps, pts, n + 1)

\* arc(x, y, z, i, j, k, rotations): the panic raised and the resulting
\* vm.Positions.  steps is the subdivision count the code derives from the
\* swept angle, MaxArcDeviation and MinArcLineLength.
arc(P, st, plane, x, y, z, i, j, k, rotations, steps, pts) ==
    LET a == ArcLocal(plane, curPos(P), x, y, z, i, j, k)
        lin == [st EXCEPT !.MoveMode = MoveModeLinear]
        q == add(plane, a.e1, a.e2, a.e3)
    IN IF rotations < 1 THEN [err |-> "Arc rotations < 1", pos |-> P]
       ELSE IF ArcVerify(a) # NoErr THEN [err |-> ArcVerify(a), pos |-> P]
       ELSE LET looped == IF steps > 0
                          THEN ArcLoop(P, lin, plane, a, steps, pts, 0) ELSE P
            IN [err |-> NoErr, pos |-> move(looped, lin, q[1], q[2], q[3])]

----------------------------------------------------------------------------
(* Initial toolpaths of the route-grouping specification: the origin       *)
(* followed by up to MaxCycles drill cycles (travel, plunge, lift).        *)

DrillCycle(P, x, y, d, mode, f, h) ==
    LET cur == curPos(P)
        st(mm) == [InitialState EXCEPT !.MoveMode = mm, !.Feedrate = f]
        travel == IF cur.X # x \/ cur.Y # y
                  THEN <<Position(st(MoveModeRapid), x, y, cur.Z)>> ELSE <<>>
    IN P \o travel \o <<Position(st(mode), x, y, 0 - d),
                        Position(st(MoveModeLinear), x, y, h)>>

RECURSIVE CyclePaths(_)
CyclePaths(n) ==
    IF n = 0 THEN {<<Origin>>}
    ELSE CyclePaths(n - 1) \cup
         { DrillCycle(P, x, y, d, mode, f, h) :
             P \in CyclePaths(n - 1), x \in Xs, y \in Ys, d \in 1..MaxDepth,
             mode \in {MoveModeRapid, MoveModeLinear}, f \in 1..MaxFeed,
             h \in 0..MaxZ }

----------------------------------------------------------------------------
(* calcPos *)

Letters == {"X", "Y", "Z", "I", "J", "K"}
Words == { 5 * w : w \in 1..MaxWord }
Offsets == 0..MaxOffset

\* A block: the words it carries, by letter; a letter outside the domain is
\* a word the block does not have
Blocks == UNION { [D -> Words] : D \in SUBSET Letters }

\* stmt.GetWord(l) returns an error
Absent(stmt, l) == l \notin DOMAIN stmt

\* stmt.GetWordDefault(l, 0.0)
GetWordDefault(stmt, l) == IF Absent(stmt, l) THEN 0 ELSE stmt[l]

\* v *= 25.4 when vm.Imperial (words are multiples of 5, so this is exact)
toMetric(imperial, v) == IF imperial THEN (v * 254) \div 10 ELSE v

\* vm.CoordinateSystem.GetCoordinateSystem()
GetCoordinateSystem(cs) == [X |-> cs.X, Y |-> cs.Y, Z |-> cs.Z]

\* vm.CoordinateSystem.OverrideActive()
OverrideActive(cs) == cs.override

\* One of the X / Y / Z branches of calcPos: the word of letter l, prev the
\* previous waypoint's coordinate, offset the coordinate system's component
calcAxis(stmt, l, prev, offset, imperial, absoluteMove) ==
    IF Absent(stmt, l) THEN prev
    ELSE toMetric(imperial, stmt[l])
         + (IF ~absoluteMove THEN prev ELSE offset)

\* calcPos(stmt) with the context (imperial, absoluteMove, absoluteArc, cs)
\* and the toolpath P: (newX, newY, newZ, newI, newJ, newK)
calcPos(P, stmt, imperial, absoluteMove, absoluteArc, cs) ==
    LET pos == curPos(P)
        coordinateSystem == GetCoordinateSystem(cs)
        abs == absoluteMove \/ OverrideActive(cs)
        x == calcAxis(stmt, "X", pos.X, coordinateSystem.X, imperial, abs)
        y == calcAxis(stmt, "Y", pos.Y, coordinateSystem.Y, imperial, abs)
        z == calcAxis(stmt, "Z", pos.Z, coordinateSystem.Z, imperial, abs)
        i == toMetric(imperial, GetWordDefault(stmt, "I"))
        j == toMetric(imperial, GetWordDefault(stmt, "J"))
        k == toMetric(imperial, GetWordDefault(stmt, "K"))
    IN IF ~absoluteArc
       THEN [X |-> x, Y |-> y, Z |-> z,
             I |-> i + pos.X, J |-> j + pos.Y, K |-> k + pos.Z]
       ELSE [X |-> x, Y |-> y, Z |-> z + coordinateSystem.Z,
             I |-> i + coordinateSystem.X, J |-> j + coordinateSystem.Y,
             K |-> k]

NoResult == [X |-> 0, Y |-> 0, Z |-> 0, I |-> 0, J |-> 0, K |-> 0]

----------------------------------------------------------------------------
(* Actions *)

\* The machine context after construction: metric, absolute moves, relative
\* arc centres, no work offset
InitContext ==
    /\ Imperial = FALSE
    /\ AbsoluteMove = TRUE
    /\ AbsoluteArc = FALSE
    /\ CoordinateSystem = [X |-> 0, Y |-> 0, Z |-> 0, override |-> FALSE]
    /\ resolved = NoResult

\* What every change of the machine context does to the history variables
ContextStep(op) ==
    /\ before' = Positions
    /\ lastOp' = op
    /\ lastArg' = <<>>
    /\ err' = NoErr
    /\ resolved' = NoResult
    /\ UNCHANGED <<Positions, State, MovePlane, blocks>>

SetImperial(b) ==
    /\ Imperial # b
    /\ Imperial' = b
    /\ ContextStep("SetImperial")
    /\ UNCHANGED <<AbsoluteMove, AbsoluteArc, CoordinateSystem>>

SetAbsoluteMove(b) ==
    /\ AbsoluteMove # b
    /\ AbsoluteMove' = b
    /\ ContextStep("SetAbsoluteMove")
    /\ UNCHANGED <<Imperial, AbsoluteArc, CoordinateSystem>>

SetAbsoluteArc(b) ==
    /\ AbsoluteArc # b
    /\ AbsoluteArc' = b
    /\ ContextStep("SetAbsoluteArc")
    /\ UNCHANGED <<Imperial, AbsoluteMove, CoordinateSystem>>

SetCoordinateSystem(x, y, z) ==
    /\ GetCoordinateSystem(CoordinateSystem) # [X |-> x, Y |-> y, Z |-> z]
    /\ CoordinateSystem' = [CoordinateSystem EXCEPT !.X = x, !.Y = y, !.Z = z]
    /\ ContextStep("SetCoordinateSystem")
    /\ UNCHANGED <<Imperial, AbsoluteMove, AbsoluteArc>>

SetOverride(b) ==
    /\ OverrideActive(CoordinateSystem) # b
    /\ CoordinateSystem' = [CoordinateSystem EXCEPT !.override = b]
    /\ ContextStep("SetOverride")
    /\ UNCHANGED <<Imperial, AbsoluteMove, AbsoluteArc>>

\* calcPos(stmt): vm.AbsoluteMove is forced for the call and restored by the
\* deferred function, so the context is as it was when the call returns
CalcPos(stmt) ==
    /\ resolved' = calcPos(Positions, stmt, Imperial, AbsoluteMove,
                           AbsoluteArc, CoordinateSystem)
    /\ before' = Positions
    /\ lastOp' = "calcPos"
    /\ lastArg' = <<stmt>>
    /\ err' = NoErr
    /\ UNCHANGED <<Positions, State, MovePlane, blocks, Imperial,
                   AbsoluteMove, AbsoluteArc, CoordinateSystem>>


SetMoveMode(mode) ==
    /\ blocks > 0
    /\ State.MoveMode # mode
    /\ State' = [State EXCEPT !.MoveMode = mode]
    /\ before' = Positions
    /\ lastOp' = "SetMoveMode"
    /\ lastArg' = <<>>
    /\ err' = NoErr
    /\ UNCHANGED <<Positions, MovePlane, blocks, context>>

SetFeedrate(f) ==
    /\ blocks > 0
    /\ State.Feedrate # f
    /\ State' = [State EXCEPT !.Feedrate = f]
    /\ before' = Positions
    /\ lastOp' = "SetFeedrate"
    /\ lastArg' = <<>>
    /\ err' = NoErr
    /\ UNCHANGED <<Positions, MovePlane, blocks, context>>

Move(x, y, z) ==
    /\ blocks > 0
    /\ blocks' = blocks - 1
    /\ before' = Positions
    /\ Positions' = move(Positions, State, x, y, z)
    /\ lastOp' = "move"
    /\ lastArg' = <<>>
    /\ err' = NoErr
    /\ UNCHANGED <<State, MovePlane, context>>

RouteGrouping(tolerance) ==
    LET r == OptRouteGrouping(Positions, tolerance)
    IN /\ before' = Positions
       /\ Positions' = r.pos
       /\ err' = r.err
       /\ lastOp' = "OptRouteGrouping"
       /\ lastArg' = <<>>
       /\ UNCHANGED <<State, MovePlane, blocks, context>>

\* The pass is applied to toolpaths of at most MaxLen waypoints: every run on
\* a toolpath it has already split inserts waypoints again
DrillSpeed ==
    /\ Len(Positions) <= MaxLen
    /\ before' = Positions
    /\ Positions' = OptDrillSpeed(Positions)
    /\ err' = NoErr
    /\ lastOp' = "OptDrillSpeed"
    /\ lastArg' = <<>>
    /\ UNCHANGED <<State, MovePlane, blocks, context>>

BogusMoves ==
    /\ before' = Positions
    /\ Positions' = OptBogusMoves(Positions)
    /\ err' = NoErr
    /\ lastOp' = "OptBogusMoves"
    /\ lastArg' = <<>>
    /\ UNCHANGED <<State, MovePlane, blocks, context>>

Dwell(seconds) ==
    /\ blocks > 0
    /\ blocks' = blocks - 1
    /\ before' = Positions
    /\ Positions' = dwell(Positions, seconds)
    /\ lastOp' = "dwell"
    /\ lastArg' = <<>>
    /\ err' = NoErr
    /\ UNCHANGED <<State, MovePlane, context>>

SetSpindle(enabled) ==
    /\ blocks > 0
    /\ State.SpindleEnabled # enabled
    /\ State' = [State EXCEPT !.SpindleEnabled = enabled]
    /\ before' = Positions
    /\ lastOp' = "SetSpindle"
    /\ lastArg' = <<>>
    /\ err' = NoErr
    /\ UNCHANGED <<Positions, MovePlane, blocks, context>>

SetCoolant(mist, flood) ==
    /\ blocks > 0
    /\ State.MistCoolant # mist \/ State.FloodCoolant # flood
    /\ State' = [State EXCEPT !.MistCoolant = mist, !.FloodCoolant = flood]
    /\ before' = Positions
    /\ lastOp' = "SetCoolant"
    /\ lastArg' = <<>>
    /\ err' = NoErr
    /\ UNCHANGED <<Positions, MovePlane, blocks, context>>

VectorPass(tolerance) ==
    /\ before' = Positions
    /\ Positions' = OptVector(Positions, tolerance)
    /\ err' = NoErr
    /\ lastOp' = "OptVector"
    /\ lastArg' = <<tolerance>>
    /\ UNCHANGED <<State, MovePlane, blocks, context>>

SafetyHeight(height) ==
    LET r == SetSafetyHeight(Positions, height)
    IN /\ before' = Positions
       /\ Positions' = r.pos
       /\ err' = r.err
       /\ lastOp' = "SetSafetyHeight"
       /\ lastArg' = <<height>>
       /\ UNCHANGED <<State, MovePlane, blocks, context>>

ReturnHome(disableSpindle, disableCoolant) ==
    /\ before' = Positions
    /\ Positions' = Return(Positions, disableSpindle, disableCoolant)
    /\ err' = NoErr
    /\ lastOp' = "Return"
    /\ lastArg' = <<disableSpindle, disableCoolant>>
    /\ UNCHANGED <<State, MovePlane, blocks, context>>

SetPlane(plane) ==
    /\ blocks > 0
    /\ MovePlane # plane
    /\ MovePlane' = plane
    /\ before' = Positions
    /\ lastOp' = "SetPlane"
    /\ lastArg' = <<>>
    /\ err' = NoErr
    /\ UNCHANGED <<Positions, State, blocks, context>>

Arc(x, y, z, i, j, k, rotations, steps) ==
    /\ blocks > 0
    /\ State.MoveMode \in {MoveModeCWArc, MoveModeCCWArc}
    /\ LET a == ArcLocal(MovePlane, curPos(Positions), x, y, z, i, j, k)
           loops == rotations >= 1 /\ ArcVerify(a) = NoErr /\ steps > 0
       IN \E pts \in (IF loops THEN [0..steps -> CirclePoints(a)] ELSE {<<>>}) :
            LET r == arc(Positions, State, MovePlane, x, y, z, i, j, k,
                         rotations, steps, pts)
            IN /\ Positions' = r.pos
               /\ err' = r.err
    /\ blocks' = blocks - 1
    /\ before' = Positions
    /\ lastOp' = "arc"
    /\ lastArg' = <<x, y, z, steps>>
    /\ UNCHANGED <<State, MovePlane, context>>

\* A toolpath that holds the origin alone
InitBuild(n) ==
    /\ Positions = <<Origin>>
    /\ State = InitialState
    /\ MovePlane = PlaneXY
    /\ InitContext
    /\ before = Positions
    /\ lastOp = "init"
    /\ lastArg = <<>>
    /\ err = NoErr
    /\ blocks = n

InitRoute ==
    /\ Positions \in CyclePaths(MaxCycles)
    /\ State = curPos(Positions).State
    /\ MovePlane = PlaneXY
    /\ InitContext
    /\ before = Positions
    /\ lastOp = "init"
    /\ lastArg = <<>>
    /\ err = NoErr
    /\ blocks = MaxBlocks

NextRoute ==
    \/ \E mode \in {MoveModeRapid, MoveModeLinear} : SetMoveMode(mode)
    \/ \E f \in Feeds : SetFeedrate(f)
    \/ \E x \in Xs, y \in Ys, z \in Zs : Move(x, y, z)
    \/ \E tolerance \in Tolerances : RouteGrouping(tolerance)

SpecRoute == InitRoute /\ [][NextRoute]_vars

NextDrill ==
    \/ \E mode \in {MoveModeRapid, MoveModeLinear} : SetMoveMode(mode)
    \/ \E x \in Xs, y \in Ys, z \in Zs : Move(x, y, z)
    \/ DrillSpeed

SpecDrill == InitRoute /\ [][NextDrill]_vars

NextBogus ==
    \/ \E mode \in {MoveModeRapid, MoveModeLinear} : SetMoveMode(mode)
    \/ \E x \in Xs, y \in Ys, z \in Zs : Move(x, y, z)
    \/ BogusMoves

SpecBogus == InitRoute /\ [][NextBogus]_vars

InitVector == InitBuild(BuildBlocks)

NextVector ==
    \/ \E mode \in {MoveModeRapid, MoveModeLinear} : SetMoveMode(mode)
    \/ \E x \in Xs, y \in Ys, z \in Zs : Move(x, y, z)
    \/ Dwell(1)
    \/ \E tolerance \in VectorTolerances : VectorPass(tolerance)

SpecVector == InitVector /\ [][NextVector]_vars

InitSafety == InitBuild(BuildBlocks)

NextSafety ==
    \/ \E x \in Xs, y \in Ys, z \in Zs : Move(x, y, z)
    \/ \E height \in Heights : SafetyHeight(height)

SpecSafety == InitSafety /\ [][NextSafety]_vars

InitReturn == InitBuild(ReturnBlocks)

NextReturn ==
    \/ \E enabled \in BOOLEAN : SetSpindle(enabled)
    \/ \E flood \in BOOLEAN : SetCoolant(FALSE, flood)
    \/ \E x \in Xs, y \in Ys, z \in Zs : Move(x, y, z)
    \/ \E ds \in BOOLEAN, dc \in BOOLEAN : ReturnHome(ds, dc)

SpecReturn == InitReturn /\ [][NextReturn]_vars

\* The origin alone, or the origin and one rapid move to a grid point
InitArc ==
    /\ Positions \in {<<Origin>>} \cup
         { <<Origin, Position([InitialState EXCEPT !.MoveMode = MoveModeRapid], x, y, z)>> :
             x \in ArcCoords, y \in ArcCoords, z \in ArcCoords }
    /\ State = curPos(Positions).State
    /\ MovePlane = PlaneXY
    /\ InitContext
    /\ before = Positions
    /\ lastOp = "init"
    /\ lastArg = <<>>
    /\ err = NoErr
    /\ blocks = ArcBlocks

NextArc ==
    \/ \E mode \in {MoveModeLinear, MoveModeCWArc, MoveModeCCWArc} : SetMoveMode(mode)
    \/ \E plane \in {PlaneXY, PlaneXZ, PlaneYZ} : SetPlane(plane)
    \/ \E x \in Xs, y \in Ys, z \in Zs : Move(x, y, z)
    \/ \E x \in ArcCoords, y \in ArcCoords, z \in ArcCoords,
          i \in ArcCoords, j \in ArcCoords, k \in ArcCoords,
          rotations \in 0..MaxRotations, steps \in 0..MaxSteps :
            Arc(x, y, z, i, j, k, rotations, steps)

SpecArc == InitArc /\ [][NextArc]_vars

InitCalc == InitBuild(MaxBlocks)

NextCalc ==
    \/ \E x \in Xs, y \in Ys, z \in Zs : Move(x, y, z)
    \/ \E b \in BOOLEAN : SetImperial(b)
    \/ \E b \in BOOLEAN : SetAbsoluteMove(b)
    \/ \E b \in BOOLEAN : SetAbsoluteArc(b)
    \/ \E x \in Offsets, y \in Offsets, z \in Offsets :
          SetCoordinateSystem(x, y, z)
    \/ \E b \in BOOLEAN : SetOverride(b)
    \/ \E stmt \in Blocks : CalcPos(stmt)

SpecCalc == InitCalc /\ [][NextCalc]_vars

----------------------------------------------------------------------------
(* C1: whenever OptRouteGrouping returns an error, vm.Positions after the   *)
(* call is identical to vm.Positions before the call.                       *)
C1_ErrorLeavesToolpath ==
    (lastOp = "OptRouteGrouping" /\ err # NoErr) => Positions = before

\* A call of OptRouteGrouping that failed after sets had been collected
C1_Witness ==
    /\ lastOp = "OptRouteGrouping"
    /\ err = "Incomplete final drill set"
    /\ Len(Scan(before).sets) > 0
    /\ Positions = before

\* The feedrates of the downward linear plunges of P: moves from Z >= 0 to
\* Z < 0 at unchanged X, Y (the tool starts at the origin)
PlungeFeeds(P) ==
    { P[i].State.Feedrate : i \in
        { j \in 1..Len(P) :
            LET lx == IF j = 1 THEN 0 ELSE P[j - 1].X
                ly == IF j = 1 THEN 0 ELSE P[j - 1].Y
                lz == IF j = 1 THEN 0 ELSE P[j - 1].Z
            IN /\ P[j].X = lx /\ P[j].Y = ly /\ lz >= 0 /\ P[j].Z < 0
               /\ P[j].State.MoveMode = MoveModeLinear
               /\ P[j].State.Feedrate # 0 } }

\* C7: every selection step of the reordering picks a group whose first
\* point has minimal XY distance to the current tool position (the origin
\* at first, afterwards where the previously placed group left the tool).
C7_NearestGroupSelected ==
    (lastOp = "OptRouteGrouping" /\ err = NoErr) =>
        LET steps == SortSteps(Scan(before).sets, ZeroVector, 1)
        IN \A i \in 1..Len(steps) :
             LET tool == IF i = 1 THEN ZeroVector
                         ELSE Vector(Last(steps[i - 1].sets[steps[i - 1].selected]))
                 chosen == steps[i].sets[steps[i].selected][1]
             IN \A j \in 1..Len(steps[i].sets) :
                  xyDiffSq(Vector(chosen), tool)
                      <= xyDiffSq(Vector(steps[i].sets[j][1]), tool)

\* C8: OptRouteGrouping returns an error for every toolpath that contains a
\* rapid-mode waypoint whose Z is negative.
C8_RapidInStockRejected ==
    (lastOp = "OptRouteGrouping"
     /\ \E i \in 1..Len(before) :
           before[i].State.MoveMode = MoveModeRapid /\ before[i].Z < 0)
        => err # NoErr

\* C10: OptRouteGrouping returns an error whenever the downward linear
\* plunges use more than one distinct non-zero feedrate, in any order.
C10_MultipleFeedratesRejected ==
    (lastOp = "OptRouteGrouping" /\ Cardinality(PlungeFeeds(before)) > 1)
        => err # NoErr

\* C2: OptDrillSpeed is idempotent: applying it to its own result yields
\* exactly the same waypoint sequence.
C2_DrillSpeedIdempotent ==
    lastOp = "OptDrillSpeed" => OptDrillSpeed(Positions) = Positions

\* Waypoint i of P is a linear or rapid move of non-zero length
IsMotion(p) ==
    p.State.MoveMode = MoveModeRapid \/ p.State.MoveMode = MoveModeLinear

\* Direction of the move that arrives at waypoint i (the tool starts at 0,0,0)
MoveDelta(P, i) ==
    IF i = 1 THEN Vector(P[1])
    ELSE [X |-> P[i].X - P[i - 1].X, Y |-> P[i].Y - P[i - 1].Y,
          Z |-> P[i].Z - P[i - 1].Z]

SameDirection(a, b) ==
    /\ a # ZeroVector /\ b # ZeroVector
    /\ UnitVector(a.X, a.Y, a.Z) = UnitVector(b.X, b.Y, b.Z)

\* C9: OptBogusMoves never merges across a mode change: when a rapid and a
\* linear move follow each other in exactly the same direction, the earlier
\* waypoint is not overwritten by the later one.
C9_NoMergeAcrossModeChange ==
    lastOp = "OptBogusMoves" =>
        \A i \in 2..Len(before) :
            (/\ IsMotion(before[i - 1]) /\ IsMotion(before[i])
             /\ before[i - 1].State.MoveMode # before[i].State.MoveMode
             /\ SameDirection(MoveDelta(before, i - 1), MoveDelta(before, i)))
            => \E n \in 1..Len(OptBogusMovesKept(before)) :
                   OptBogusMovesKept(before)[n] = i - 1

\* The next-lower Z plane of P: the greatest Z among the waypoints whose Z
\* is strictly below the maximum Z of P, 0 when no such positive Z exists
NextLowerPlane(P) ==
    LET zs == { P[i].Z : i \in 1..Len(P) }
        top == CHOOSE z \in zs : \A w \in zs : w <= z
        below == { z \in zs : z < top /\ z > 0 }
    IN IF below = {} THEN 0 ELSE CHOOSE z \in below : \A w \in below : w <= z

\* C3: SetSafetyHeight(height) returns an error and leaves every waypoint
\* unchanged whenever height is at or below the next-lower Z plane; the
\* toolpath is rewritten only when height is strictly above that plane.
C3_SafetyHeightCollision ==
    lastOp = "SetSafetyHeight" =>
        /\ lastArg[1] <= NextLowerPlane(before)
              => (err # NoErr /\ Positions = before)
        /\ Positions # before => lastArg[1] > NextLowerPlane(before)

\* A rejected request for a height equal to a positive next-lower plane
C3_Witness ==
    /\ lastOp = "SetSafetyHeight"
    /\ NextLowerPlane(before) > 0
    /\ lastArg[1] = NextLowerPlane(before)
    /\ err # NoErr

AtOrigin(p) == p.X = 0 /\ p.Y = 0 /\ p.Z = 0

\* C4: on a non-empty toolpath Return appends between 0 and 3 waypoints,
\* keeps the existing ones in place, ends at exactly (0,0,0), and appends
\* nothing only when the last waypoint was already at the origin.
C4_ReturnEndsAtOrigin ==
    (lastOp = "Return" /\ Len(before) > 0) =>
        /\ Len(Positions) - Len(before) \in 0..3
        /\ \A i \in 1..Len(before) : Vector(Positions[i]) = Vector(before[i])
        /\ \A i \in 1..(Len(before) - 1) : Positions[i] = before[i]
        /\ AtOrigin(Last(Positions))
        /\ Len(Positions) = Len(before) => AtOrigin(Last(before))

\* A return by lift, travel and plunge that switches the spindle off
C4_Witness ==
    /\ lastOp = "Return"
    /\ Len(Positions) = Len(before) + 3
    /\ Last(before).State.SpindleEnabled
    /\ ~Last(Positions).State.SpindleEnabled
    /\ AtOrigin(Last(Positions))

\* Waypoint i of P starts / ends a maximal run of consecutive waypoints
\* that share the same linear or rapid motion mode
RunFirst(P, i) ==
    IsMotion(P[i]) /\ (i = 1 \/ P[i - 1].State.MoveMode # P[i].State.MoveMode)

RunLast(P, i) ==
    IsMotion(P[i]) /\ (i = Len(P) \/ P[i + 1].State.MoveMode # P[i].State.MoveMode)

\* C5: OptVector keeps the first and the last waypoint of every run of
\* equal linear or rapid motion mode and every non-motion waypoint, drops
\* waypoints without reordering the rest, and so keeps the first and the
\* last waypoint of the whole toolpath.
C5_VectorKeepsEndpoints ==
    lastOp = "OptVector" =>
        LET kept == OptVectorKept(before, lastArg[1])
        IN /\ Positions = [n \in 1..Len(kept) |-> before[kept[n]]]
           /\ \A n \in 1..(Len(kept) - 1) : kept[n] < kept[n + 1]
           /\ \A i \in 1..Len(before) :
                (~IsMotion(before[i]) \/ RunFirst(before, i) \/ RunLast(before, i))
                    => \E n \in 1..Len(kept) : kept[n] = i
           /\ Len(before) > 0 =>
                (/\ Len(Positions) > 0
                 /\ Positions[1] = before[1]
                 /\ Last(Positions) = Last(before))

\* A pass that dropped a waypoint from a toolpath in which a rapid run is
\* directly followed by a linear run
C5_Witness ==
    /\ lastOp = "OptVector"
    /\ Len(Positions) < Len(before)
    /\ \E i \in 1..(Len(before) - 1) :
         /\ IsMotion(before[i]) /\ IsMotion(before[i + 1])
         /\ before[i].State.MoveMode # before[i + 1].State.MoveMode

\* C6: for every arc request that passes validation, in each working plane
\* and for every subdivision count including zero, the last waypoint
\* appended by arc(x,y,z,i,j,k,rotations) is exactly at (x,y,z); the loop
\* adds steps + 1 waypoints before it when steps > 0 and none otherwise.
C6_ArcEndsAtTarget ==
    (lastOp = "arc" /\ err = NoErr) =>
        /\ Vector(Last(Positions))
             = [X |-> lastArg[1], Y |-> lastArg[2], Z |-> lastArg[3]]
        /\ Len(Positions) = Len(before) + 1
             + (IF lastArg[4] > 0 THEN lastArg[4] + 1 ELSE 0)
        /\ SubSeq(Positions, 1, Len(before)) = before

\* A valid arc in the YZ plane, with zero steps, to a point whose X, Y and Z
\* are not all equal
C6_Witness ==
    /\ lastOp = "arc" /\ err = NoErr
    /\ MovePlane = PlaneYZ
    /\ lastArg[4] = 0
    /\ lastArg[1] # lastArg[2]
    /\ Len(Positions) = Len(before) + 1

\* The value the words of letter l resolve to for a linear axis: the previous
\* coordinate when absent, else the converted word plus the previous
\* coordinate (relative) or the coordinate-system offset (absolute), once
ResolvedAxis(stmt, l, prev, offset) ==
    IF l \notin DOMAIN stmt THEN prev
    ELSE toMetric(Imperial, stmt[l])
         + (IF AbsoluteMove \/ CoordinateSystem.override THEN offset ELSE prev)

\* The value the word of letter l resolves to for an absolute arc centre
ResolvedCentre(stmt, l, offset) ==
    toMetric(Imperial, IF l \in DOMAIN stmt THEN stmt[l] ELSE 0) + offset

\* C11: in calcPos the arc-centre flag affects only I, J, K: the resolved
\* X, Y, Z are the same for AbsoluteArc true and false (an absent Z is the
\* previous waypoint's Z, a present Z its converted value plus the previous
\* Z or the coordinate-system Z offset once), and with AbsoluteArc true each
\* of I, J, K is its converted value (0 when absent) plus the matching
\* coordinate-system offset component.
C11_ArcFlagAffectsOnlyCentre ==
    lastOp = "calcPos" =>
        LET stmt == lastArg[1]
            pos == Last(before)
            cs == CoordinateSystem
            other == calcPos(before, stmt, Imperial, AbsoluteMove,
                             ~AbsoluteArc, CoordinateSystem)
        IN /\ resolved.X = other.X /\ resolved.Y = other.Y
           /\ resolved.Z = other.Z
           /\ resolved.X = ResolvedAxis(stmt, "X", pos.X, cs.X)
           /\ resolved.Y = ResolvedAxis(stmt, "Y", pos.Y, cs.Y)
           /\ resolved.Z = ResolvedAxis(stmt, "Z", pos.Z, cs.Z)
           /\ AbsoluteArc =>
                 /\ resolved.I = ResolvedCentre(stmt, "I", cs.X)
                 /\ resolved.J = ResolvedCentre(stmt, "J", cs.Y)
                 /\ resolved.K = ResolvedCentre(stmt, "K", cs.Z)

====
